---- MODULE Spec2Model ----
(***************************************************************************)
(* express-ts-wizard: the project-materialization pipeline of the CLI.     *)
(*                                                                         *)
(* One run of the tool: the interactive prompts (prompts.ts), main         *)
(* (index.ts) and createProject (actions.ts).  Every `await` of the source *)
(* is a suspension point: the action before it issues the external         *)
(* operation, the action after it ("...Returns") applies the operation's   *)
(* effect and runs the continuation up to the next await.  The filesystem  *)
(* is shared with other processes, which may create the target path while  *)
(* the run is suspended.                                                   *)
(***************************************************************************)
EXTENDS Naturals, Sequences, FiniteSets

VARIABLES
    pc,                  \* position of the run (which await it is suspended at)
    choices,             \* UserChoices collected by runPrompts
    validationMessage,   \* what the text prompt's validate last returned
    fs,                  \* the target directory tree (paths relative to projectPath)
    rootOwner,           \* who created the target path: "none", "tool" or "other"
    tpl,                 \* the template trees, per location
    templatesDirectory,  \* the local variable of createProject
    packageTemplateContent, \* the local variable of copyProjectFiles
    pending,             \* the external operations in flight
    trace,               \* every external call, its completion and every message
    stageLog,            \* the orchestrator stages the run has entered, in order
    thrown,              \* the error createProject rejected with ("none": none)
    exitCode             \* the code the process exits with once pc = "exited"

vars == << pc, choices, validationMessage, fs, rootOwner, tpl, templatesDirectory,
           packageTemplateContent, pending, trace, stageLog, thrown, exitCode >>

(***************************************************************************)
(* Bounds of the model.                                                    *)
(***************************************************************************)
MaxNameLen == 2

\* Sample characters: a lower-case letter, an upper-case letter, a digit, the
\* two allowed punctuation marks and one character outside the class.
LowerLetters == {"a"}
UpperLetters == {"B"}
Digits == {"7"}
Alphabet == LowerLetters \cup UpperLetters \cup Digits \cup {"-", "_", ".", "/"}

RECURSIVE StringsUpTo(_)
StringsUpTo(n) ==
    IF n = 0 THEN {<< >>}
    ELSE LET shorter == StringsUpTo(n - 1)
         IN  shorter \cup {Append(s, c) : s \in shorter, c \in Alphabet}

NameInputs == StringsUpTo(MaxNameLen)

(***************************************************************************)
(* Strings are sequences of characters.                                    *)
(***************************************************************************)
Contains(s, sub) ==
    \E i \in 1..(Len(s) + 1) :
        /\ i + Len(sub) - 1 <= Len(s)
        /\ SubSeq(s, i, i + Len(sub) - 1) = sub

StartsWith(s, prefix) ==
    /\ Len(prefix) <= Len(s)
    /\ SubSeq(s, 1, Len(prefix)) = prefix

\* The literal the regular expression /\{\{PROJECT_NAME\}\}/g matches.
PLACEHOLDER ==
    << "{", "{", "P", "R", "O", "J", "E", "C", "T", "_", "N", "A", "M", "E", "}", "}" >>

\* The same replace with a pattern that lacks the g flag: the first match only.
RECURSIVE ReplaceFirst(_, _, _)
ReplaceFirst(s, token, replacement) ==
    IF Len(s) = 0 THEN << >>
    ELSE IF StartsWith(s, token)
         THEN replacement \o SubSeq(s, Len(token) + 1, Len(s))
         ELSE << Head(s) >> \o ReplaceFirst(Tail(s), token, replacement)

\* String.prototype.replace with a global pattern of one literal: the matches
\* are found left to right and do not overlap.  (The replacement is inserted
\* as it is: a validated project name holds no "$".)
RECURSIVE ReplaceAll(_, _, _)
ReplaceAll(s, token, replacement) ==
    IF Len(s) = 0 THEN << >>
    ELSE IF StartsWith(s, token)
         THEN replacement \o ReplaceAll(SubSeq(s, Len(token) + 1, Len(s)), token, replacement)
         ELSE << Head(s) >> \o ReplaceAll(Tail(s), token, replacement)

(***************************************************************************)
(* prompts.ts                                                              *)
(***************************************************************************)
TsStrictness == {"relaxed", "moderate", "strict"}

\* [a-z0-9-_] without the i flag
IsNameCharCaseSensitive(c) == c \in LowerLetters \cup Digits \cup {"-", "_"}

\* A pattern that also lets dots and slashes through.
IsNameCharOrPathChar(c) ==
    c \in LowerLetters \cup UpperLetters \cup Digits \cup {"-", "_", ".", "/"}

\* [a-z0-9-_] under the i flag
IsNameChar(c) == c \in LowerLetters \cup UpperLetters \cup Digits \cup {"-", "_"}

Undefined == "undefined"

validate(value) ==
    IF Len(value) = 0 THEN "Project name is required"
    ELSE IF ~(\A i \in 1..Len(value) : IsNameChar(value[i]))
         THEN "Only letters, numbers, hyphens and underscores allowed"
         ELSE Undefined

(***************************************************************************)
(* The template store and the target tree.                                 *)
(***************************************************************************)
Absent == [kind |-> "absent", data |-> << >>]
Dir == [kind |-> "dir", data |-> << >>]
File(d) == [kind |-> "file", data |-> d]

Locations == {"production", "development"}

TemplateFiles ==
    { "base/src/index.ts", "base/gitignore", "base/package.template.json",
      "tsconfig/relaxed.json", "tsconfig/moderate.json", "tsconfig/strict.json" }

\* The manifest template the tests feed createProject: {"name": "{{PROJECT_NAME}}"}
PackageTemplate ==
    << "{", "\"", "n", "a", "m", "e", "\"", ":", " ", "\"" >> \o PLACEHOLDER \o << "\"", "}" >>

IndexTsContent == << "e", "x", "p", "r", "e", "s", "s" >>
GitignoreContent == << "d", "i", "s", "t" >>

TsconfigContent(level) ==
    CASE level = "relaxed" -> << "s", ":", "0" >>
      [] level = "moderate" -> << "s", ":", "1" >>
      [] level = "strict" -> << "s", ":", "1", "+" >>

TemplateTree ==
    [f \in TemplateFiles |->
        CASE f = "base/src/index.ts" -> File(IndexTsContent)
          [] f = "base/gitignore" -> File(GitignoreContent)
          [] f = "base/package.template.json" -> File(PackageTemplate)
          [] f = "tsconfig/relaxed.json" -> File(TsconfigContent("relaxed"))
          [] f = "tsconfig/moderate.json" -> File(TsconfigContent("moderate"))
          [] f = "tsconfig/strict.json" -> File(TsconfigContent("strict"))]

NoTemplates == [f \in TemplateFiles |-> Absent]

TargetPaths ==
    { ".", "src", "src/index.ts", ".gitignore", "package.json", "tsconfig.json",
      "package-lock.json", "node_modules", ".git" }

EmptyTarget == [q \in TargetPaths |-> Absent]

\* What another user or process may have put at the target path.
ForeignManifest == << "{", "}" >>
ForeignDirectory ==
    [EmptyTarget EXCEPT !["."] = Dir, !["package.json"] = File(ForeignManifest)]
ForeignFile == [EmptyTarget EXCEPT !["."] = File(<< >>)]

existsSync(tree, q) == tree[q].kind # "absent"

Event(ev, op, arg, at) ==
    [ev |-> ev, op |-> op, arg |-> arg, at |-> at, owner |-> rootOwner]

Init ==
    /\ pc = "projectName"
    /\ choices = [projectName |-> << >>, tsStrictness |-> "moderate", initGit |-> TRUE]
    /\ validationMessage = Undefined
    /\ \E t \in {EmptyTarget, ForeignDirectory, ForeignFile} :
          /\ fs = t
          /\ rootOwner = IF t = EmptyTarget THEN "none" ELSE "other"
    /\ tpl \in [Locations -> {TemplateTree, NoTemplates}]
    /\ templatesDirectory = "unresolved"
    /\ packageTemplateContent = << >>
    /\ pending = {}
    /\ trace = << >>
    /\ stageLog = << >>
    /\ thrown = "none"
    /\ exitCode = 0

(***************************************************************************)
(* runPrompts: the three prompts of p.group, and its onCancel.             *)
(***************************************************************************)
SubmitProjectName(value) ==
    /\ pc = "projectName"
    /\ validationMessage' = validate(value)
    /\ IF validate(value) = Undefined
       THEN /\ choices' = [choices EXCEPT !.projectName = value]
            /\ pc' = "tsStrictness"
       ELSE UNCHANGED << choices, pc >>
    /\ UNCHANGED << fs, rootOwner, tpl, templatesDirectory, packageTemplateContent,
                    pending, trace, stageLog, thrown, exitCode >>

SelectTsStrictness(level) ==
    /\ pc = "tsStrictness"
    /\ choices' = [choices EXCEPT !.tsStrictness = level]
    /\ pc' = "initGit"
    /\ UNCHANGED << validationMessage, fs, rootOwner, tpl, templatesDirectory,
                    packageTemplateContent, pending, trace, stageLog, thrown, exitCode >>

ConfirmInitGit(answer) ==
    /\ pc = "initGit"
    /\ choices' = [choices EXCEPT !.initGit = answer]
    /\ pc' = "main"
    /\ UNCHANGED << validationMessage, fs, rootOwner, tpl, templatesDirectory,
                    packageTemplateContent, pending, trace, stageLog, thrown, exitCode >>

\* onCancel without its process.exit(0): p.group returns what was answered
\* and main goes on.
onCancelWithoutExit ==
    /\ pc \in {"projectName", "tsStrictness", "initGit"}
    /\ trace' = Append(trace, Event("message", "cancel", "Operation cancelled.", "."))
    /\ pc' = "main"
    /\ UNCHANGED << choices, validationMessage, fs, rootOwner, tpl, templatesDirectory,
                    packageTemplateContent, pending, stageLog, thrown, exitCode >>

onCancel ==
    /\ pc \in {"projectName", "tsStrictness", "initGit"}
    /\ trace' = Append(trace, Event("message", "cancel", "Operation cancelled.", "."))
    /\ exitCode' = 0
    /\ pc' = "exited"
    /\ UNCHANGED << choices, validationMessage, fs, rootOwner, tpl, templatesDirectory,
                    packageTemplateContent, pending, stageLog, thrown >>

(***************************************************************************)
(* actions.ts                                                              *)
(***************************************************************************)
\* The resolver without its fallback.
getTemplatesDirectoryPackaged == "production"

getTemplatesDirectory ==
    IF \E f \in TemplateFiles : existsSync(tpl["production"], f)
    THEN "production"
    ELSE "development"

\* The template path built without the level: the default's template.
tsconfigSourceFixed(level) == "tsconfig/moderate.json"

tsconfigSourcePath(level) ==
    CASE level = "relaxed" -> "tsconfig/relaxed.json"
      [] level = "moderate" -> "tsconfig/moderate.json"
      [] level = "strict" -> "tsconfig/strict.json"

\* A step that awaits an operation it did not start.
AwaitNeverStarted(op, events) ==
    /\ pc' = op
    /\ pending' = pending \ {pc}
    /\ trace' = trace \o SubSeq(events, 1, Len(events) - 1)
    /\ UNCHANGED << thrown, exitCode >>

\* A step that leaves the run suspended at the await of operation op.
Await(op, events) ==
    /\ pc' = op
    /\ pending' = (pending \ {pc}) \cup {op}
    /\ trace' = trace \o events
    /\ UNCHANGED << thrown, exitCode >>

\* main's catch without its process.exit(1): the process ends by itself.
RejectsWithoutExit(stopMessage, error, events) ==
    /\ trace' = trace \o events \o
                << Event("message", "spinner.stop", stopMessage, "."),
                   Event("message", "cancel", "Error creating project", "."),
                   Event("message", "console.error", error, ".") >>
    /\ thrown' = error
    /\ stageLog' = Append(stageLog, "Failed")
    /\ exitCode' = exitCode
    /\ pc' = "exited"
    /\ pending' = pending \ {pc}

\* The stage's catch throwing a new error made of its status message.
RejectsWithStageMessage(stopMessage, error, events) ==
    /\ trace' = trace \o events \o
                << Event("message", "spinner.stop", stopMessage, "."),
                   Event("message", "cancel", "Error creating project", "."),
                   Event("message", "console.error", stopMessage, ".") >>
    /\ thrown' = stopMessage
    /\ stageLog' = Append(stageLog, "Failed")
    /\ exitCode' = 1
    /\ pc' = "exited"
    /\ pending' = pending \ {pc}

\* createProject rejects with error (after the stage's catch stopped the
\* spinner); main's catch reports it and calls process.exit(1).
Rejects(stopMessage, error, events) ==
    /\ trace' = trace \o events \o
                << Event("message", "spinner.stop", stopMessage, "."),
                   Event("message", "cancel", "Error creating project", "."),
                   Event("message", "console.error", error, ".") >>
    /\ thrown' = error
    /\ stageLog' = Append(stageLog, "Failed")
    /\ exitCode' = 1
    /\ pc' = "exited"
    /\ pending' = pending \ {pc}

\* A table in which two levels share a description.
getTsStrictnessDescriptionCollapsed(level) ==
    CASE level = "relaxed" -> "Relaxed (strict: false)"
      [] level = "moderate" -> "Moderate (strict: true)"
      [] level = "strict" -> "Moderate (strict: true)"

getTsStrictnessDescription(level) ==
    CASE level = "relaxed" -> "Relaxed (strict: false)"
      [] level = "moderate" -> "Moderate (strict: true)"
      [] level = "strict" -> "Strict (maximum options)"

\* main returning after createProject without displaying anything.
ResolvesWithoutMessage(events) ==
    /\ trace' = trace \o events
    /\ stageLog' = Append(stageLog, "Done")
    /\ pc' = "exited"
    /\ pending' = pending \ {pc}
    /\ UNCHANGED << thrown, exitCode >>

\* createProject resolves; main displays the success message and returns,
\* and the process ends with the default exit code.
Resolves(events) ==
    /\ trace' = trace \o events \o
                << Event("message", "note", "Next steps", "."),
                   Event("message", "outro",
                         getTsStrictnessDescription(choices.tsStrictness), ".") >>
    /\ stageLog' = Append(stageLog, "Done")
    /\ pc' = "exited"
    /\ pending' = pending \ {pc}
    /\ UNCHANGED << thrown, exitCode >>

\* The effect of fs.copy (overwrite defaults to true) and what it needs.
copy(src, dst) == [fs EXCEPT ![dst] = tpl[templatesDirectory][src]]

Readable(src) ==
    /\ templatesDirectory \in Locations
    /\ tpl[templatesDirectory][src].kind = "file"

Call(op, arg, at) == Event("call", op, arg, at)
Ok(op, arg, at) == Event("ok", op, arg, at)
Fail(op, arg, at) == Event("fail", op, arg, at)
Spinner(op, message) == Event("message", op, message, ".")
Exists(tree, q) ==
    Event("sync", "existsSync", IF existsSync(tree, q) THEN "true" ELSE "false", q)

\* createProject without the check of lines 115-118.
createProjectUnchecked ==
    /\ pc = "main"
    /\ templatesDirectory' = getTemplatesDirectory
    /\ stageLog' = << "Validating", "Materializing" >>
    /\ Await("ensureDir",
             << Exists(fs, "."),
                Spinner("spinner.start", "Creating project structure..."),
                Call("ensureDir", "", "src") >>)
    /\ UNCHANGED << choices, validationMessage, fs, rootOwner, tpl, packageTemplateContent >>

\* index.ts 41-50 and actions.ts 110-124, 41: runPrompts has resolved, main
\* calls createProject, which runs to its first await.
createProject ==
    /\ pc = "main"
    /\ templatesDirectory' = getTemplatesDirectory
    /\ IF existsSync(fs, ".")
       THEN /\ trace' = trace \o
                   << Exists(fs, "."),
                      Event("message", "cancel", "Directory already exists.", ".") >>
            /\ stageLog' = << "Validating", "Failed" >>
            /\ exitCode' = 1
            /\ pc' = "exited"
            /\ UNCHANGED << pending, thrown >>
       ELSE /\ stageLog' = << "Validating", "Materializing" >>
            /\ Await("ensureDir",
                     << Exists(fs, "."),
                        Spinner("spinner.start", "Creating project structure..."),
                        Call("ensureDir", "", "src") >>)
    /\ UNCHANGED << choices, validationMessage, fs, rootOwner, tpl, packageTemplateContent >>

\* The catch of lines 126-129 removing the target directory before it re-throws.
MaterializationFailsWithCleanup(op, arg, at) ==
    /\ Rejects("Error creating structure", op, << Fail(op, arg, at) >>)
    /\ fs' = EmptyTarget
    /\ UNCHANGED << rootOwner, packageTemplateContent >>

\* A materialization failure that leaves createProject with the spinner running.
MaterializationFailsSpinnerRunning(op, arg, at) ==
    /\ trace' = trace \o
                << Fail(op, arg, at),
                   Event("message", "cancel", "Error creating project", "."),
                   Event("message", "console.error", op, ".") >>
    /\ thrown' = op
    /\ stageLog' = Append(stageLog, "Failed")
    /\ exitCode' = 1
    /\ pc' = "exited"
    /\ pending' = pending \ {pc}
    /\ UNCHANGED << fs, rootOwner, packageTemplateContent >>

\* The catch of lines 126-129.
MaterializationFails(op, arg, at) ==
    /\ Rejects("Error creating structure", op, << Fail(op, arg, at) >>)
    /\ UNCHANGED << fs, rootOwner, packageTemplateContent >>

EnsureDirReturns(ok) ==
    /\ pc = "ensureDir"
    /\ "ensureDir" \in pending
    /\ ok => fs["."].kind # "file"
    /\ IF ok
       THEN /\ fs' = [fs EXCEPT !["."] = Dir, !["src"] = Dir]
            /\ rootOwner' = IF rootOwner = "none" THEN "tool" ELSE rootOwner
            /\ Await("copyIndex",
                     << Ok("ensureDir", "", "src"),
                        Call("copy", "base/src/index.ts", "src/index.ts") >>)
            /\ UNCHANGED << stageLog, packageTemplateContent >>
       ELSE MaterializationFails("ensureDir", "", "src")
    /\ UNCHANGED << choices, validationMessage, tpl, templatesDirectory >>

\* copyProjectFiles going on to the next copy after the first one failed.
CopyIndexFailureSkipped(ok) ==
    /\ pc = "copyIndex"
    /\ "copyIndex" \in pending
    /\ ok => Readable("base/src/index.ts")
    /\ fs' = IF ok THEN copy("base/src/index.ts", "src/index.ts") ELSE fs
    /\ Await("copyGitignore",
             << IF ok THEN Ok("copy", "base/src/index.ts", "src/index.ts")
                      ELSE Fail("copy", "base/src/index.ts", "src/index.ts"),
                Call("copy", "base/gitignore", ".gitignore") >>)
    /\ UNCHANGED << stageLog, rootOwner, packageTemplateContent >>
    /\ UNCHANGED << choices, validationMessage, tpl, templatesDirectory >>

CopyIndexReturns(ok) ==
    /\ pc = "copyIndex"
    /\ "copyIndex" \in pending
    /\ ok => Readable("base/src/index.ts")
    /\ IF ok
       THEN /\ fs' = copy("base/src/index.ts", "src/index.ts")
            /\ Await("copyGitignore",
                     << Ok("copy", "base/src/index.ts", "src/index.ts"),
                        Call("copy", "base/gitignore", ".gitignore") >>)
            /\ UNCHANGED << stageLog, rootOwner, packageTemplateContent >>
       ELSE MaterializationFails("copy", "base/src/index.ts", "src/index.ts")
    /\ UNCHANGED << choices, validationMessage, tpl, templatesDirectory >>

CopyGitignoreReturns(ok) ==
    /\ pc = "copyGitignore"
    /\ "copyGitignore" \in pending
    /\ ok => Readable("base/gitignore")
    /\ IF ok
       THEN /\ fs' = copy("base/gitignore", ".gitignore")
            /\ Await("readFile",
                     << Ok("copy", "base/gitignore", ".gitignore"),
                        Call("readFile", "base/package.template.json", "") >>)
            /\ UNCHANGED << stageLog, rootOwner, packageTemplateContent >>
       ELSE MaterializationFails("copy", "base/gitignore", ".gitignore")
    /\ UNCHANGED << choices, validationMessage, tpl, templatesDirectory >>

ReadFileReturns(ok) ==
    /\ pc = "readFile"
    /\ "readFile" \in pending
    /\ ok => Readable("base/package.template.json")
    /\ IF ok
       THEN /\ packageTemplateContent' =
                   tpl[templatesDirectory]["base/package.template.json"].data
            /\ Await("writeFile",
                     << Ok("readFile", "base/package.template.json", ""),
                        Call("writeFile", "", "package.json") >>)
            /\ UNCHANGED << stageLog, rootOwner, fs >>
       ELSE MaterializationFails("readFile", "base/package.template.json", "")
    /\ UNCHANGED << choices, validationMessage, tpl, templatesDirectory >>

\* The manifest written as it was read.
packageJsonUnrendered == packageTemplateContent

packageJsonContent ==
    ReplaceAll(packageTemplateContent, PLACEHOLDER, choices.projectName)

\* copyProjectFiles with the copy of line 57 not awaited: the copy is started
\* and createProject goes on to the install at once.
WriteFileReturnsCopyNotAwaited(ok) ==
    /\ pc = "writeFile"
    /\ "writeFile" \in pending
    /\ IF ok
       THEN /\ fs' = [fs EXCEPT !["package.json"] = File(packageJsonContent)]
            /\ stageLog' = Append(stageLog, "Installing")
            /\ pc' = "npmInstall"
            /\ pending' = (pending \ {pc}) \cup {"copyTsconfig", "npmInstall"}
            /\ trace' = trace \o
                   << Ok("writeFile", "", "package.json"),
                      Call("copy", tsconfigSourcePath(choices.tsStrictness), "tsconfig.json"),
                      Spinner("spinner.stop", "Project structure created"),
                      Spinner("spinner.start", "Installing dependencies..."),
                      Call("execa", "npm install", ".") >>
            /\ UNCHANGED << thrown, exitCode, rootOwner, packageTemplateContent >>
       ELSE MaterializationFails("writeFile", "", "package.json")
    /\ UNCHANGED << choices, validationMessage, tpl, templatesDirectory >>

\* copyProjectFiles rendering the manifest into the template file itself.
WriteFileReturnsInPlace(ok) ==
    /\ pc = "writeFile"
    /\ "writeFile" \in pending
    /\ IF ok
       THEN /\ tpl' = [tpl EXCEPT ![templatesDirectory]["base/package.template.json"] =
                                      File(packageJsonContent)]
            /\ fs' = [fs EXCEPT !["package.json"] = File(packageJsonContent)]
            /\ Await("copyTsconfig",
                     << Ok("writeFile", "", "package.json"),
                        Call("copy", tsconfigSourcePath(choices.tsStrictness),
                             "tsconfig.json") >>)
            /\ UNCHANGED << stageLog, rootOwner, packageTemplateContent >>
       ELSE /\ MaterializationFails("writeFile", "", "package.json")
            /\ UNCHANGED tpl
    /\ UNCHANGED << choices, validationMessage, templatesDirectory >>

WriteFileReturns(ok) ==
    /\ pc = "writeFile"
    /\ "writeFile" \in pending
    /\ IF ok
       THEN /\ fs' = [fs EXCEPT !["package.json"] = File(packageJsonContent)]
            /\ Await("copyTsconfig",
                     << Ok("writeFile", "", "package.json"),
                        Call("copy", tsconfigSourcePath(choices.tsStrictness),
                             "tsconfig.json") >>)
            /\ UNCHANGED << stageLog, rootOwner, packageTemplateContent >>
       ELSE MaterializationFails("writeFile", "", "package.json")
    /\ UNCHANGED << choices, validationMessage, tpl, templatesDirectory >>

\* createProject starting npm install in the directory above the target.
CopyTsconfigReturnsInstallAbove(ok) ==
    /\ pc = "copyTsconfig"
    /\ "copyTsconfig" \in pending
    /\ ok => Readable(tsconfigSourcePath(choices.tsStrictness))
    /\ IF ok
       THEN /\ fs' = copy(tsconfigSourcePath(choices.tsStrictness), "tsconfig.json")
            /\ stageLog' = Append(stageLog, "Installing")
            /\ Await("npmInstall",
                     << Ok("copy", tsconfigSourcePath(choices.tsStrictness),
                           "tsconfig.json"),
                        Spinner("spinner.stop", "Project structure created"),
                        Spinner("spinner.start", "Installing dependencies..."),
                        Call("execa", "npm install", "..") >>)
            /\ UNCHANGED << rootOwner, packageTemplateContent >>
       ELSE MaterializationFails("copy", tsconfigSourcePath(choices.tsStrictness),
                                 "tsconfig.json")
    /\ UNCHANGED << choices, validationMessage, tpl, templatesDirectory >>

CopyTsconfigReturns(ok) ==
    /\ pc = "copyTsconfig"
    /\ "copyTsconfig" \in pending
    /\ ok => Readable(tsconfigSourcePath(choices.tsStrictness))
    /\ IF ok
       THEN /\ fs' = copy(tsconfigSourcePath(choices.tsStrictness), "tsconfig.json")
            /\ stageLog' = Append(stageLog, "Installing")
            /\ Await("npmInstall",
                     << Ok("copy", tsconfigSourcePath(choices.tsStrictness),
                           "tsconfig.json"),
                        Spinner("spinner.stop", "Project structure created"),
                        Spinner("spinner.start", "Installing dependencies..."),
                        Call("execa", "npm install", ".") >>)
            /\ UNCHANGED << rootOwner, packageTemplateContent >>
       ELSE MaterializationFails("copy", tsconfigSourcePath(choices.tsStrictness),
                                 "tsconfig.json")
    /\ UNCHANGED << choices, validationMessage, tpl, templatesDirectory >>

LockFile == File(<< "l", "o", "c", "k" >>)

\* installDependencies with its failure absorbed the way the Git stage's is.
NpmInstallFailureAbsorbed(ok, lockWritten) ==
    /\ pc = "npmInstall"
    /\ "npmInstall" \in pending
    /\ ~ok => ~lockWritten
    /\ fs' = IF ok
             THEN [fs EXCEPT !["node_modules"] = Dir,
                             !["package-lock.json"] = IF lockWritten THEN LockFile ELSE @]
             ELSE fs
    /\ IF choices.initGit
       THEN /\ stageLog' = Append(stageLog, "InitializingVcs")
            /\ Await("gitInit",
                     << IF ok THEN Ok("execa", "npm install", ".")
                              ELSE Fail("execa", "npm install", "."),
                        Spinner("spinner.stop", "Error installing dependencies"),
                        Spinner("spinner.start", "Initializing Git..."),
                        Call("execa", "git init", ".") >>)
       ELSE Resolves(<< IF ok THEN Ok("execa", "npm install", ".")
                              ELSE Fail("execa", "npm install", "."),
                        Spinner("spinner.stop", "Error installing dependencies") >>)
    /\ UNCHANGED << choices, validationMessage, rootOwner, tpl, templatesDirectory,
                    packageTemplateContent >>

\* The check of lines 74-75, made on the tree npm install left behind.
lockFileNeverMissing(tree) == FALSE

lockFileMissing(tree) == ~existsSync(tree, "package-lock.json")

\* A Git stage that also looks at who created the target directory.
initGitWhenTargetIsOwn == choices.initGit /\ rootOwner # "other"

\* A Git stage that runs whatever the user answered.
initGitAssumed == TRUE

\* The condition of line 140.
initGitChosen == choices.initGit

\* installDependencies (lines 67-78) inside the try of lines 131-138, and
\* what follows it up to the next await (lines 140-143, 87).
NpmInstallReturns(ok, lockWritten) ==
    /\ pc = "npmInstall"
    /\ "npmInstall" \in pending
    /\ ~ok => ~lockWritten
    /\ fs' = IF ok
             THEN [fs EXCEPT !["node_modules"] = Dir,
                             !["package-lock.json"] = IF lockWritten THEN LockFile ELSE @]
             ELSE fs
    /\ IF ~ok
       THEN Rejects("Error installing dependencies", "npm install failed",
                    << Fail("execa", "npm install", ".") >>)
       ELSE IF lockFileMissing(fs')
       THEN Rejects("Error installing dependencies",
                    "package-lock.json was not generated",
                    << Ok("execa", "npm install", "."),
                       Exists(fs', "package-lock.json") >>)
       ELSE IF initGitChosen
       THEN /\ stageLog' = Append(stageLog, "InitializingVcs")
            /\ Await("gitInit",
                     << Ok("execa", "npm install", "."),
                        Exists(fs', "package-lock.json"),
                        Spinner("spinner.stop", "Dependencies installed"),
                        Spinner("spinner.start", "Initializing Git..."),
                        Call("execa", "git init", ".") >>)
       ELSE Resolves(<< Ok("execa", "npm install", "."),
                        Exists(fs', "package-lock.json"),
                        Spinner("spinner.stop", "Dependencies installed") >>)
    /\ UNCHANGED << choices, validationMessage, rootOwner, tpl, templatesDirectory,
                    packageTemplateContent >>

\* The Git stage's catch re-throwing like the other stages' do.
GitFailureRethrown(command) ==
    /\ Rejects("Error initializing Git (may not be installed)", command,
               << Fail("execa", command, ".") >>)
    /\ UNCHANGED fs

\* A Git stage that issues the failed command a second time before giving up.
GitFailureRetried(command) ==
    /\ IF Cardinality({i \in DOMAIN trace : trace[i].ev = "call" /\ trace[i].arg = command}) < 2
       THEN /\ Await(pc, << Fail("execa", command, "."), Call("execa", command, ".") >>)
            /\ UNCHANGED stageLog
       ELSE Resolves(<< Fail("execa", command, "."),
                        Spinner("spinner.stop",
                                "Error initializing Git (may not be installed)") >>)
    /\ UNCHANGED fs

\* The catch of lines 145-148: the error is dropped and createProject resolves.
GitFails(command) ==
    /\ Resolves(<< Fail("execa", command, "."),
                   Spinner("spinner.stop",
                           "Error initializing Git (may not be installed)") >>)
    /\ UNCHANGED fs

\* initializeGitRepository going on to git add whatever git init returned.
GitInitResultIgnored(ok) ==
    /\ pc = "gitInit"
    /\ "gitInit" \in pending
    /\ fs' = IF ok THEN [fs EXCEPT ![".git"] = [kind |-> "dir", data |-> << "init" >>]]
                   ELSE fs
    /\ Await("gitAdd",
             << IF ok THEN Ok("execa", "git init", ".") ELSE Fail("execa", "git init", "."),
                Call("execa", "git add .", ".") >>)
    /\ UNCHANGED stageLog
    /\ UNCHANGED << choices, validationMessage, rootOwner, tpl, templatesDirectory,
                    packageTemplateContent >>

GitInitReturns(ok) ==
    /\ pc = "gitInit"
    /\ "gitInit" \in pending
    /\ IF ok
       THEN /\ fs' = [fs EXCEPT ![".git"] = [kind |-> "dir", data |-> << "init" >>]]
            /\ Await("gitAdd",
                     << Ok("execa", "git init", "."), Call("execa", "git add .", ".") >>)
            /\ UNCHANGED stageLog
       ELSE GitFails("git init")
    /\ UNCHANGED << choices, validationMessage, rootOwner, tpl, templatesDirectory,
                    packageTemplateContent >>

GitAddReturns(ok) ==
    /\ pc = "gitAdd"
    /\ "gitAdd" \in pending
    /\ IF ok
       THEN /\ fs' = [fs EXCEPT ![".git"].data = Append(@, "add")]
            /\ Await("gitCommit",
                     << Ok("execa", "git add .", "."),
                        Call("execa", "git commit -m Initial commit from express-ts-wizard", ".") >>)
            /\ UNCHANGED stageLog
       ELSE GitFails("git add .")
    /\ UNCHANGED << choices, validationMessage, rootOwner, tpl, templatesDirectory,
                    packageTemplateContent >>

\* initializeGitRepository committing a second time after the first commit.
GitCommitRepeated(ok) ==
    /\ pc = "gitCommit"
    /\ "gitCommit" \in pending
    /\ IF ok
       THEN /\ fs' = [fs EXCEPT ![".git"].data = Append(@, "commit")]
            /\ IF Len(fs[".git"].data) < 3
               THEN /\ Await("gitCommit",
                             << Ok("execa", "git commit -m Initial commit from express-ts-wizard", "."),
                                Call("execa", "git commit -m Initial commit from express-ts-wizard", ".") >>)
                    /\ UNCHANGED stageLog
               ELSE Resolves(<< Ok("execa", "git commit -m Initial commit from express-ts-wizard", "."),
                                Spinner("spinner.stop", "Git initialized") >>)
       ELSE GitFails("git commit -m Initial commit from express-ts-wizard")
    /\ UNCHANGED << choices, validationMessage, rootOwner, tpl, templatesDirectory,
                    packageTemplateContent >>

GitCommitReturns(ok) ==
    /\ pc = "gitCommit"
    /\ "gitCommit" \in pending
    /\ IF ok
       THEN /\ fs' = [fs EXCEPT ![".git"].data = Append(@, "commit")]
            /\ Resolves(<< Ok("execa", "git commit -m Initial commit from express-ts-wizard", "."),
                           Spinner("spinner.stop", "Git initialized") >>)
       ELSE GitFails("git commit -m Initial commit from express-ts-wizard")
    /\ UNCHANGED << choices, validationMessage, rootOwner, tpl, templatesDirectory,
                    packageTemplateContent >>

(***************************************************************************)
(* The filesystem is not the tool's alone: while the run is in progress    *)
(* another process may create the target path, as a directory or a file.   *)
(***************************************************************************)
OtherProcessCreates(tree) ==
    /\ pc # "exited"
    /\ ~existsSync(fs, ".")
    /\ fs' = tree
    /\ rootOwner' = "other"
    /\ UNCHANGED << pc, choices, validationMessage, tpl, templatesDirectory,
                    packageTemplateContent, pending, trace, stageLog, thrown, exitCode >>

Next ==
    \/ \E value \in NameInputs : SubmitProjectName(value)
    \/ \E level \in TsStrictness : SelectTsStrictness(level)
    \/ \E answer \in BOOLEAN : ConfirmInitGit(answer)
    \/ onCancel
    \/ createProject
    \/ \E ok \in BOOLEAN : EnsureDirReturns(ok)
    \/ \E ok \in BOOLEAN : CopyIndexReturns(ok)
    \/ \E ok \in BOOLEAN : CopyGitignoreReturns(ok)
    \/ \E ok \in BOOLEAN : ReadFileReturns(ok)
    \/ \E ok \in BOOLEAN : WriteFileReturns(ok)
    \/ \E ok \in BOOLEAN : CopyTsconfigReturns(ok)
    \/ \E ok, lockWritten \in BOOLEAN : NpmInstallReturns(ok, lockWritten)
    \/ \E ok \in BOOLEAN : GitInitReturns(ok)
    \/ \E ok \in BOOLEAN : GitAddReturns(ok)
    \/ \E ok \in BOOLEAN : GitCommitReturns(ok)
    \/ \E tree \in {ForeignDirectory, ForeignFile} : OtherProcessCreates(tree)

Spec == Init /\ [][Next]_vars

(***************************************************************************)
(* Reading the trace.                                                      *)
(***************************************************************************)
GitCommands == {"git init", "git add .", "git commit -m Initial commit from express-ts-wizard"}
WriteOps == {"ensureDir", "copy", "writeFile"}
FileOps == {"ensureDir", "copy", "readFile", "writeFile"}

Last(log) == log[Len(log)]
Stage == IF stageLog = << >> THEN "Prompting" ELSE Last(stageLog)

Happened(ev, op, arg) ==
    \E i \in DOMAIN trace :
        trace[i].ev = ev /\ trace[i].op = op /\ trace[i].arg = arg

TargetExistedAtCheck ==
    \E i \in DOMAIN trace :
        /\ trace[i].ev = "sync"
        /\ trace[i].op = "existsSync"
        /\ trace[i].at = "."
        /\ trace[i].arg = "true"

NoExternalCall == \A i \in DOMAIN trace : trace[i].ev # "call"

NoGitInvoked ==
    \A i \in DOMAIN trace :
        ~(trace[i].ev = "call" /\ trace[i].op = "execa" /\ trace[i].arg \in GitCommands)

NothingWritten ==
    \A i \in DOMAIN trace : ~(trace[i].ev \in {"call", "ok"} /\ trace[i].op \in WriteOps)

(***************************************************************************)
(* C1: if the target path exists when createProject checks it, the run    *)
(* performs no filesystem write and invokes no subprocess, reports the     *)
(* conflict, and the process exits with code 1.                            *)
(***************************************************************************)
C1_ExistingTargetIsFatal ==
    TargetExistedAtCheck =>
        /\ NothingWritten
        /\ NoExternalCall
        /\ pending = {}
        /\ Happened("message", "cancel", "Directory already exists.")
        /\ pc = "exited"
        /\ exitCode = 1

C1_Witness ==
    /\ TargetExistedAtCheck
    /\ pc = "exited"
    /\ fs = ForeignDirectory

(***************************************************************************)
(* C2: the existence check and the creation of the target are one          *)
(* precondition: also when another process acts between the tool's steps,  *)
(* the tool never writes into or overwrites a target path that exists (by  *)
(* another's hand) at the moment it writes.                                *)
(***************************************************************************)
C2_NeverWritesIntoExistingTarget ==
    \A i \in DOMAIN trace :
        (trace[i].ev = "ok" /\ trace[i].op \in WriteOps) => trace[i].owner # "other"

(***************************************************************************)
(* C3: if the npm install subprocess fails, no git command is ever         *)
(* invoked, whatever initGit is, and createProject rejects: the run ends   *)
(* in Failed.                                                              *)
(***************************************************************************)
C3_InstallFailureSkipsVcs ==
    Happened("fail", "execa", "npm install") =>
        /\ NoGitInvoked
        /\ thrown = "npm install failed"
        /\ Stage = "Failed"
        /\ pc = "exited"

C3_Witness ==
    /\ Happened("fail", "execa", "npm install")
    /\ choices.initGit
    /\ pc = "exited"

(***************************************************************************)
(* C4: if npm install succeeds but package-lock.json is absent in the      *)
(* target afterwards, createProject fails with the verification error and  *)
(* no git command is invoked; the lock file is checked only right after a  *)
(* successful subprocess.                                                  *)
(***************************************************************************)
C4_MissingLockFileIsFatal ==
    /\ (Happened("ok", "execa", "npm install") /\ ~existsSync(fs, "package-lock.json")) =>
          /\ thrown = "package-lock.json was not generated"
          /\ NoGitInvoked
          /\ Stage = "Failed"
          /\ pc = "exited"
    /\ \A i \in DOMAIN trace :
          (trace[i].op = "existsSync" /\ trace[i].at = "package-lock.json") =>
              /\ i > 1
              /\ trace[i - 1].ev = "ok"
              /\ trace[i - 1].arg = "npm install"

C4_Witness ==
    /\ Happened("ok", "execa", "npm install")
    /\ ~existsSync(fs, "package-lock.json")
    /\ existsSync(fs, "node_modules")
    /\ choices.initGit

(***************************************************************************)
(* C5: if initGit is false, no git subprocess is invoked at any point of   *)
(* the run, whatever validation, materialization and install do.           *)
(***************************************************************************)
C5_NoVcsUnlessChosen ==
    (pc \notin {"projectName", "tsStrictness", "initGit"} /\ ~choices.initGit) => NoGitInvoked

C5_Witness ==
    /\ ~choices.initGit
    /\ Stage = "Done"
    /\ existsSync(fs, "package-lock.json")

(***************************************************************************)
(* C6: if initGit is true and a git command fails (init, add or commit),   *)
(* the failure is absorbed: createProject resolves without throwing, the   *)
(* warning status is shown, the run ends in Done and the process does not  *)
(* exit with code 1.                                                       *)
(***************************************************************************)
GitFailed ==
    \E i \in DOMAIN trace :
        trace[i].ev = "fail" /\ trace[i].op = "execa" /\ trace[i].arg \in GitCommands

C6_VcsFailureIsAbsorbed ==
    GitFailed =>
        /\ choices.initGit
        /\ thrown = "none"
        /\ Happened("message", "spinner.stop",
                    "Error initializing Git (may not be installed)")
        /\ Happened("message", "outro", getTsStrictnessDescription(choices.tsStrictness))
        /\ Stage = "Done"
        /\ pc = "exited"
        /\ exitCode # 1

C6_Witness ==
    /\ Happened("fail", "execa", "git add .")
    /\ fs[".git"].data = << "init" >>
    /\ pc = "exited"

(***************************************************************************)
(* C7: for every valid projectName and every strictness level, if the      *)
(* target path is absent beforehand and no file operation fails,           *)
(* materialization writes exactly four files under the target:             *)
(* src/index.ts, .gitignore, package.json (holding the project name and no *)
(* placeholder) and one tsconfig.json, the template of the chosen          *)
(* strictness; three are copies and one is a write.                        *)
(***************************************************************************)
MaterializedFiles == {"src/index.ts", ".gitignore", "package.json", "tsconfig.json"}

IsFileWrite(e) == e.ev = "ok" /\ e.op \in {"copy", "writeFile"}

FileWrites == SelectSeq(trace, IsFileWrite)

MaterializationCompleted == \E i \in DOMAIN stageLog : stageLog[i] = "Installing"

C7_MaterializationWritesFourFiles ==
    MaterializationCompleted =>
        /\ validate(choices.projectName) = Undefined
        /\ Len(FileWrites) = 4
        /\ {FileWrites[i].at : i \in 1..Len(FileWrites)} = MaterializedFiles
        /\ Cardinality({i \in 1..Len(FileWrites) : FileWrites[i].op = "copy"}) = 3
        /\ \A i \in 1..Len(FileWrites) :
              FileWrites[i].op = "writeFile" <=> FileWrites[i].at = "package.json"
        /\ fs["src/index.ts"] = tpl[templatesDirectory]["base/src/index.ts"]
        /\ fs[".gitignore"] = tpl[templatesDirectory]["base/gitignore"]
        /\ fs["tsconfig.json"] = File(TsconfigContent(choices.tsStrictness))
        /\ fs["package.json"].kind = "file"
        /\ Contains(fs["package.json"].data, choices.projectName)
        /\ ~Contains(fs["package.json"].data, PLACEHOLDER)
        /\ (pc = "npmInstall" /\ rootOwner = "tool") =>
              {q \in TargetPaths : fs[q].kind = "file"} = MaterializedFiles

C7_Witness ==
    /\ pc = "npmInstall"
    /\ rootOwner = "tool"
    /\ choices.projectName = << "B", "7" >>
    /\ choices.tsStrictness = "strict"
    /\ fs["package.json"].data =
          << "{", "\"", "n", "a", "m", "e", "\"", ":", " ", "\"", "B", "7", "\"", "}" >>

(***************************************************************************)
(* C8: the exit code is 0 when the run succeeds or the user cancels the    *)
(* prompts, and 1 on every fatal error (target exists, a copy, read or     *)
(* write failure, an install failure, a missing lock file); no run exits   *)
(* with 1 after reaching Done and no fatal failure exits with 0.           *)
(***************************************************************************)
FatalError ==
    \/ TargetExistedAtCheck
    \/ \E i \in DOMAIN trace : trace[i].ev = "fail" /\ trace[i].op \in FileOps
    \/ Happened("fail", "execa", "npm install")
    \/ \E i \in DOMAIN trace :
          /\ trace[i].op = "existsSync"
          /\ trace[i].at = "package-lock.json"
          /\ trace[i].arg = "false"

Cancelled == Happened("message", "cancel", "Operation cancelled.")

C8_ExitCodes ==
    /\ FatalError => pc = "exited"
    /\ pc = "exited" =>
          /\ exitCode = (IF FatalError THEN 1 ELSE 0)
          /\ ~FatalError <=> (Cancelled \/ Stage = "Done")
          /\ FatalError <=> (Stage = "Failed")
          /\ ~(Cancelled /\ Stage = "Done")

C8_Witness ==
    /\ pc = "exited"
    /\ exitCode = 1
    /\ Happened("fail", "writeFile", "")
    /\ existsSync(fs, ".gitignore")

(***************************************************************************)
(* C9: the stages only move along Validating -> Materializing ->           *)
(* Installing -> (InitializingVcs when initGit) -> Done; Failed is entered *)
(* only from Validating, Materializing or Installing, never from           *)
(* InitializingVcs; Done and Failed are terminal; no stage is skipped or   *)
(* revisited.                                                              *)
(***************************************************************************)
StageEdges ==
    { << "Validating", "Materializing" >>, << "Validating", "Failed" >>,
      << "Materializing", "Installing" >>, << "Materializing", "Failed" >>,
      << "Installing", "Failed" >>, << "InitializingVcs", "Done" >> }
    \cup (IF choices.initGit THEN {<< "Installing", "InitializingVcs" >>}
                             ELSE {<< "Installing", "Done" >>})

StageOfPc ==
    CASE pc \in {"projectName", "tsStrictness", "initGit", "main"} -> {"Prompting"}
      [] pc \in {"ensureDir", "copyIndex", "copyGitignore", "readFile", "writeFile",
                 "copyTsconfig"} -> {"Materializing"}
      [] pc = "npmInstall" -> {"Installing"}
      [] pc \in {"gitInit", "gitAdd", "gitCommit"} -> {"InitializingVcs"}
      [] pc = "exited" -> {"Prompting", "Done", "Failed"}

StagesWellOrdered ==
    /\ stageLog # << >> => stageLog[1] = "Validating"
    /\ \A i \in 1..(Len(stageLog) - 1) : << stageLog[i], stageLog[i + 1] >> \in StageEdges
    /\ \A i, j \in DOMAIN stageLog : stageLog[i] = stageLog[j] => i = j
    /\ Stage \in StageOfPc

StagesOnlyAdvance ==
    /\ Len(stageLog) <= Len(stageLog')
    /\ SubSeq(stageLog', 1, Len(stageLog)) = stageLog
    /\ Stage \in {"Done", "Failed"} => stageLog' = stageLog /\ pc' = pc

C9_StageMachine == [](StagesWellOrdered) /\ [][StagesOnlyAdvance]_vars

C9_Witness ==
    stageLog = << "Validating", "Materializing", "Installing", "InitializingVcs", "Done" >>

(***************************************************************************)
(* C10: execution is strictly sequential: a stage starts only after the    *)
(* previous one completed successfully, at most one external operation is  *)
(* in flight at any time, and npm install is never started before all four *)
(* materialization writes have completed.                                  *)
(***************************************************************************)
AsyncOps ==
    { "ensureDir", "copyIndex", "copyGitignore", "readFile", "writeFile", "copyTsconfig",
      "npmInstall", "gitInit", "gitAdd", "gitCommit" }

CompletedBetween(i, j) ==
    \E k \in (i + 1)..(j - 1) :
        /\ trace[k].ev = "ok"
        /\ trace[k].op = trace[i].op
        /\ trace[k].arg = trace[i].arg
        /\ trace[k].at = trace[i].at

C10_StrictlySequential ==
    /\ Cardinality(pending) <= 1
    /\ pending = (IF pc \in AsyncOps THEN {pc} ELSE {})
    /\ \A i, j \in DOMAIN trace :
          (i < j /\ trace[i].ev = "call" /\ trace[j].ev = "call") => CompletedBetween(i, j)
    /\ \A j \in DOMAIN trace :
          (trace[j].ev = "call" /\ trace[j].arg = "npm install") =>
              \A q \in MaterializedFiles :
                  \E k \in 1..(j - 1) :
                      trace[k].ev = "ok" /\ trace[k].op \in WriteOps /\ trace[k].at = q

C10_Witness ==
    /\ pc = "gitCommit"
    /\ pending = {"gitCommit"}
    /\ Cardinality({i \in DOMAIN trace : trace[i].ev = "call"}) = 10

(***************************************************************************)
(* The manifest rendering on its own: the run up to the write of           *)
(* package.json, with no failure, over manifest templates that hold the    *)
(* placeholder zero, one or several times between pieces of literal text.  *)
(***************************************************************************)
MaxOccurrences == 2

LiteralChunks ==
    { << >>, << "x" >>,
      << "{", "{", "P", "R", "O", "J", "E", "C", "T" >>,
      << "N", "A", "M", "E", "}", "}" >> }

RECURSIVE ChunkLists(_)
ChunkLists(n) ==
    IF n = 0 THEN {<< >>}
    ELSE {Append(l, c) : l \in ChunkLists(n - 1), c \in LiteralChunks}

\* The literal pieces of a template: k + 1 pieces around k occurrences.
TemplatePieces == UNION {ChunkLists(k + 1) : k \in 0..MaxOccurrences}

RECURSIVE Join(_, _)
Join(pieces, separator) ==
    IF Len(pieces) = 1 THEN pieces[1]
    ELSE pieces[1] \o separator \o Join(Tail(pieces), separator)

ManifestTemplates == {Join(pieces, PLACEHOLDER) : pieces \in TemplatePieces}

RenderInit ==
    /\ pc = "projectName"
    /\ choices = [projectName |-> << >>, tsStrictness |-> "moderate", initGit |-> TRUE]
    /\ validationMessage = Undefined
    /\ fs = EmptyTarget
    /\ rootOwner = "none"
    /\ \E t \in ManifestTemplates :
          tpl = [l \in Locations |->
                    IF l = "production"
                    THEN [TemplateTree EXCEPT !["base/package.template.json"] = File(t)]
                    ELSE NoTemplates]
    /\ templatesDirectory = "unresolved"
    /\ packageTemplateContent = << >>
    /\ pending = {}
    /\ trace = << >>
    /\ stageLog = << >>
    /\ thrown = "none"
    /\ exitCode = 0

RenderNext ==
    \/ \E value \in NameInputs : SubmitProjectName(value)
    \/ SelectTsStrictness("moderate")
    \/ ConfirmInitGit(TRUE)
    \/ createProject
    \/ EnsureDirReturns(TRUE)
    \/ CopyIndexReturns(TRUE)
    \/ CopyGitignoreReturns(TRUE)
    \/ ReadFileReturns(TRUE)
    \/ WriteFileReturns(TRUE)

RenderSpec == RenderInit /\ [][RenderNext]_vars

ManifestWritten == Happened("ok", "writeFile", "")

ManifestTemplate == tpl["production"]["base/package.template.json"].data

(***************************************************************************)
(* C11: the manifest written is the manifest template with every           *)
(* occurrence of {{PROJECT_NAME}} replaced by projectName and all other    *)
(* text unchanged; for a valid projectName the written manifest holds no   *)
(* occurrence of the token, for templates with zero, one or several        *)
(* occurrences.                                                            *)
(***************************************************************************)
C11_EveryOccurrenceReplaced ==
    ManifestWritten =>
        \A pieces \in TemplatePieces :
            ManifestTemplate = Join(pieces, PLACEHOLDER) =>
                fs["package.json"] = File(Join(pieces, choices.projectName))

\* The claim as stated: whatever the template, no token is left.
C11_NoTokenLeft ==
    ManifestWritten =>
        /\ C11_EveryOccurrenceReplaced
        /\ ~Contains(fs["package.json"].data, PLACEHOLDER)

\* As amended: no token is left when the literal text of the template holds
\* no "{{".
C11_NoTokenLeftInPlainTemplates ==
    ManifestWritten =>
        /\ C11_EveryOccurrenceReplaced
        /\ validate(choices.projectName) = Undefined
        /\ \A pieces \in TemplatePieces :
              ( /\ ManifestTemplate = Join(pieces, PLACEHOLDER)
                /\ \A i \in DOMAIN pieces : ~Contains(pieces[i], << "{", "{" >>) )
              => ~Contains(fs["package.json"].data, PLACEHOLDER)

C11_Witness ==
    /\ ManifestWritten
    /\ ManifestTemplate = << "x" >> \o PLACEHOLDER \o PLACEHOLDER \o << "x" >>
    /\ choices.projectName = << "a", "-" >>
    /\ fs["package.json"].data = << "x", "a", "-", "a", "-", "x" >>

(***************************************************************************)
(* C12: the choice of configuration template is a total function of the    *)
(* strictness level: relaxed, moderate and strict each select exactly one  *)
(* template (relaxed.json, moderate.json, strict.json), pairwise distinct, *)
(* and the selected one is always copied to tsconfig.json in the target.   *)
(***************************************************************************)
TsconfigTemplateOf ==
    [level \in TsStrictness |->
        IF level = "relaxed" THEN "tsconfig/relaxed.json"
        ELSE IF level = "moderate" THEN "tsconfig/moderate.json"
        ELSE "tsconfig/strict.json"]

TsconfigEvents == {i \in DOMAIN trace : trace[i].at = "tsconfig.json"}

C12_StrictnessSelectsTemplate ==
    /\ \A i \in TsconfigEvents :
          /\ trace[i].op = "copy"
          /\ trace[i].arg = TsconfigTemplateOf[choices.tsStrictness]
          /\ trace[i].arg \in TemplateFiles
          /\ \A other \in TsStrictness \ {choices.tsStrictness} :
                trace[i].arg # TsconfigTemplateOf[other]
    /\ Cardinality({i \in TsconfigEvents : trace[i].ev = "call"}) <= 1
    /\ (\E i \in TsconfigEvents : trace[i].ev = "ok") =>
          /\ fs["tsconfig.json"] =
                tpl[templatesDirectory][TsconfigTemplateOf[choices.tsStrictness]]
          /\ fs["tsconfig.json"].kind = "file"

C12_Witness ==
    /\ \E i \in TsconfigEvents : trace[i].ev = "ok"
    /\ choices.tsStrictness = "relaxed"
    /\ fs["tsconfig.json"] = File(TsconfigContent("relaxed"))

(***************************************************************************)
(* C13: there is no rollback: once the target directory or a file in it    *)
(* has been created, no later step of the run removes it; after a          *)
(* materialization or install failure everything written so far is still   *)
(* on disk when the process exits.                                         *)
(***************************************************************************)
NothingRemoved ==
    \A q \in TargetPaths :
        existsSync(fs, q) => (existsSync(fs', q) /\ fs'[q].kind = fs[q].kind)

WrittenStaysOnDisk ==
    \A i \in DOMAIN trace :
        (trace[i].ev = "ok" /\ trace[i].op \in WriteOps) =>
            /\ existsSync(fs, trace[i].at)
            /\ existsSync(fs, ".")

C13_NoRollback == [](WrittenStaysOnDisk) /\ [][NothingRemoved]_vars

C13_Witness ==
    /\ pc = "exited"
    /\ Stage = "Failed"
    /\ Happened("fail", "copy", "base/gitignore")
    /\ fs["src/index.ts"] = File(IndexTsContent)
    /\ ~existsSync(fs, ".gitignore")

(***************************************************************************)
(* C14: when the VCS stage runs, the git commands are invoked in the       *)
(* target directory in the order init, add ., commit (with the fixed       *)
(* message); each is invoked only after the previous one succeeded, so a   *)
(* failure of init or add means the later commands are never invoked.      *)
(***************************************************************************)
IsGitCall(e) == e.ev = "call" /\ e.op = "execa" /\ e.arg # "npm install"

GitCalls == SelectSeq(trace, IsGitCall)

GitOrder ==
    << "git init", "git add .", "git commit -m Initial commit from express-ts-wizard" >>

C14_GitCommandsInOrder ==
    /\ Len(GitCalls) <= 3
    /\ \A k \in 1..Len(GitCalls) :
          /\ GitCalls[k].arg = GitOrder[k]
          /\ GitCalls[k].at = "."
    /\ \A j \in DOMAIN trace :
          IsGitCall(trace[j]) =>
              /\ j > 1
              /\ trace[j - 1].op \in {"execa", "spinner.start"}
              /\ trace[j - 1].op = "execa" =>
                    /\ trace[j - 1].ev = "ok"
                    /\ \E k \in 1..2 :
                          trace[j - 1].arg = GitOrder[k] /\ trace[j].arg = GitOrder[k + 1]
              /\ trace[j - 1].op = "spinner.start" => trace[j].arg = "git init"
    /\ \A i, j \in DOMAIN trace :
          (i < j /\ trace[i].ev = "fail" /\ trace[i].arg \in {"git init", "git add ."})
              => trace[j].ev # "call"

C14_Witness ==
    /\ Len(GitCalls) = 2
    /\ Happened("fail", "execa", "git add .")
    /\ pc = "exited"

(***************************************************************************)
(* C15: if the user cancels during the prompts, the cancellation message   *)
(* is reported and the process exits with code 0 without createProject     *)
(* being called: no existence check is acted on, no file is written and no *)
(* subprocess is invoked.                                                  *)
(***************************************************************************)
C15_CancelCreatesNothing ==
    Cancelled =>
        /\ pc = "exited"
        /\ exitCode = 0
        /\ trace = << Event("message", "cancel", "Operation cancelled.", ".") >>
        /\ stageLog = << >>
        /\ templatesDirectory = "unresolved"
        /\ pending = {}
        /\ thrown = "none"
        /\ \A q \in TargetPaths : fs[q] \in {Absent, ForeignDirectory[q], ForeignFile[q]}

C15_Witness ==
    /\ Cancelled
    /\ choices.projectName = << "a", "B" >>
    /\ choices.tsStrictness = "strict"
    /\ fs = EmptyTarget

(***************************************************************************)
(* C16: the path resolver returns the packaged templates location whenever *)
(* it exists on disk and the development location otherwise; it never      *)
(* raises an error.  When neither exists, the run passes validation and    *)
(* the failure surfaces as a fatal materialization (copy) error ending in  *)
(* Failed.                                                                 *)
(***************************************************************************)
NoTemplatesAnywhere == \A l \in Locations : tpl[l] = NoTemplates

C16_TemplatesLocation ==
    /\ stageLog # << >> =>
          /\ templatesDirectory \in Locations
          /\ templatesDirectory = "production" <=> tpl["production"] # NoTemplates
    /\ (NoTemplatesAnywhere /\ stageLog # << >> /\ ~TargetExistedAtCheck) =>
          /\ SubSeq(stageLog, 1, 2) = << "Validating", "Materializing" >>
          /\ \A i \in DOMAIN trace : ~(trace[i].ev = "ok" /\ trace[i].op = "copy")
          /\ ~MaterializationCompleted
          /\ Happened("ok", "ensureDir", "") =>
                (pc = "copyIndex" \/ Happened("fail", "copy", "base/src/index.ts"))
          /\ pc = "exited" =>
                /\ Stage = "Failed"
                /\ Happened("message", "spinner.stop", "Error creating structure")
                /\ exitCode = 1

C16_Witness ==
    /\ NoTemplatesAnywhere
    /\ templatesDirectory = "development"
    /\ Happened("fail", "copy", "base/src/index.ts")
    /\ fs["src"] = Dir
    /\ Stage = "Failed"

(***************************************************************************)
(* C17: a failure in the materialization or install stage is caught only   *)
(* to stop the progress indicator with the stage's message ("Error         *)
(* creating structure" / "Error installing dependencies") and is then      *)
(* re-thrown unchanged: the error that reaches main's handler is the one   *)
(* the failing operation raised.  Only errors of the VCS stage are not     *)
(* propagated.                                                             *)
(***************************************************************************)
ErrorRaisedBy(e) ==
    IF e.op = "existsSync" THEN "package-lock.json was not generated"
    ELSE IF e.op = "execa" THEN "npm install failed"
    ELSE e.op

IsStageFailure(e) ==
    \/ e.ev = "fail" /\ e.op \in FileOps
    \/ e.ev = "fail" /\ e.op = "execa" /\ e.arg = "npm install"
    \/ e.ev = "sync" /\ e.op = "existsSync" /\ e.at = "package-lock.json" /\ e.arg = "false"

StageMessageFor(e) ==
    IF e.op \in FileOps THEN "Error creating structure" ELSE "Error installing dependencies"

C17_StageErrorsRethrownUnchanged ==
    /\ \A i \in DOMAIN trace :
          IsStageFailure(trace[i]) =>
              /\ Len(trace) = i + 3
              /\ trace[i + 1].op = "spinner.stop"
              /\ trace[i + 1].arg = StageMessageFor(trace[i])
              /\ trace[i + 2].op = "cancel"
              /\ trace[i + 2].arg = "Error creating project"
              /\ trace[i + 3].op = "console.error"
              /\ trace[i + 3].arg = ErrorRaisedBy(trace[i])
              /\ thrown = ErrorRaisedBy(trace[i])
              /\ Stage = "Failed"
    /\ thrown # "none" => \E i \in DOMAIN trace : IsStageFailure(trace[i])
    /\ GitFailed =>
          /\ thrown = "none"
          /\ \A i \in DOMAIN trace : trace[i].op # "console.error"

C17_Witness ==
    /\ thrown = "ensureDir"
    /\ Happened("message", "spinner.stop", "Error creating structure")
    /\ Happened("message", "console.error", "ensureDir")
    /\ fs = EmptyTarget

(***************************************************************************)
(* C18: no operation is retried.  Each external operation (a filesystem    *)
(* call, npm install, the lock-file test, each git command) is attempted   *)
(* at most once in a run, and nothing is attempted after a failure.        *)
(***************************************************************************)
IsAttempt(e) ==
    \/ e.ev = "call"
    \/ e.ev = "sync" /\ e.op = "existsSync"

SameOperation(d, e) == d.op = e.op /\ d.arg = e.arg /\ d.at = e.at

IsFailure(e) == e.ev = "fail" \/ IsStageFailure(e)

C18_NoRetries ==
    \A i, j \in DOMAIN trace :
        i < j =>
            /\ (IsAttempt(trace[i]) /\ IsAttempt(trace[j])) =>
                   ~SameOperation(trace[i], trace[j])
            /\ IsFailure(trace[i]) => ~IsAttempt(trace[j])

C18_Witness ==
    /\ Happened("fail", "execa", "git add .")
    /\ Cardinality({i \in DOMAIN trace : trace[i].ev = "call" /\ trace[i].arg = "git add ."}) = 1
    /\ pc = "exited"
    /\ Stage = "Done"

(***************************************************************************)
(* C19: the project-name validator returns no message exactly when the     *)
(* string is non-empty and every character is a letter, a digit, a hyphen  *)
(* or an underscore; the empty string gives "Project name is required"     *)
(* and any other string gives "Only letters, numbers, hyphens and          *)
(* underscores allowed".  Only an accepted string becomes the project      *)
(* name.                                                                   *)
(***************************************************************************)
Letters == LowerLetters \cup UpperLetters

AllowedInName(c) == c \in Letters \/ c \in Digits \/ c = "-" \/ c = "_"

WellFormedName(value) ==
    /\ value # << >>
    /\ \A i \in DOMAIN value : AllowedInName(value[i])

ExpectedMessage(value) ==
    CASE value = << >> -> "Project name is required"
      [] WellFormedName(value) -> Undefined
      [] OTHER -> "Only letters, numbers, hyphens and underscores allowed"

ValidatorAnswers ==
    \A value \in NameInputs :
        SubmitProjectName(value) =>
            /\ validationMessage' = ExpectedMessage(value)
            /\ validationMessage' = Undefined <=> WellFormedName(value)
            /\ choices'.projectName = IF WellFormedName(value) THEN value
                                      ELSE choices.projectName

C19_ValidatorAcceptsExactlyNameCharacters ==
    /\ [](/\ choices.projectName # << >> => WellFormedName(choices.projectName)
          /\ stageLog # << >> => WellFormedName(choices.projectName))
    /\ [][ValidatorAnswers]_vars

C19_Witness ==
    /\ choices.projectName = << "B", "_" >>
    /\ validationMessage = Undefined
    /\ pc = "tsStrictness"

C19_WitnessRejected ==
    /\ validationMessage = "Only letters, numbers, hyphens and underscores allowed"
    /\ pc = "projectName"
    /\ choices.projectName = << >>

(***************************************************************************)
(* C20: the template tree is read-only input.  No step of a run            *)
(* (materialization, install, VCS) writes to, renames or deletes a file    *)
(* under the templates directory: every write addresses a path of the      *)
(* target, template files appear only as the source of a copy or a read,   *)
(* and every template file is unchanged at the end of every run.           *)
(***************************************************************************)
WritesAddressTarget ==
    \A i \in DOMAIN trace :
        /\ trace[i].op \in WriteOps => trace[i].at \in TargetPaths
        /\ trace[i].op = "execa" => trace[i].at \in TargetPaths
        /\ trace[i].op \in {"copy", "readFile"} => trace[i].arg \in TemplateFiles

TemplatesUntouched == tpl' = tpl

C20_TemplatesAreReadOnly ==
    /\ [](WritesAddressTarget)
    /\ [][TemplatesUntouched]_vars

C20_Witness ==
    /\ Stage = "Done"
    /\ MaterializationCompleted
    /\ Happened("ok", "execa", "git commit -m Initial commit from express-ts-wizard")
    /\ templatesDirectory = "production"
    /\ tpl["production"] = TemplateTree
    /\ fs["package.json"].kind = "file"
    /\ fs["package.json"].data # tpl["production"]["base/package.template.json"].data

(***************************************************************************)
(* C21: every stage that runs reports exactly one start and then exactly   *)
(* one stop to the progress indicator, on success and on failure.  No      *)
(* stage is started while another is still started, no run ends (Done or   *)
(* Failed) with a started indicator that was not stopped, and when         *)
(* validation fails the indicator is never started.                        *)
(***************************************************************************)
IsSpinnerEvent(e) == e.op \in {"spinner.start", "spinner.stop"}

SpinnerEvents == SelectSeq(trace, IsSpinnerEvent)

SpinnerStages == {"Materializing", "Installing", "InitializingVcs"}

StartMessageOf(stage) ==
    CASE stage = "Materializing" -> "Creating project structure..."
      [] stage = "Installing" -> "Installing dependencies..."
      [] stage = "InitializingVcs" -> "Initializing Git..."

StopMessagesOf(stage) ==
    CASE stage = "Materializing" ->
             {"Project structure created", "Error creating structure"}
      [] stage = "Installing" ->
             {"Dependencies installed", "Error installing dependencies"}
      [] stage = "InitializingVcs" ->
             {"Git initialized", "Error initializing Git (may not be installed)"}

StagesRun == SelectSeq(stageLog, LAMBDA s : s \in SpinnerStages)

C21_SpinnerStartStopPaired ==
    /\ \A i \in DOMAIN SpinnerEvents :
          SpinnerEvents[i].op = IF i % 2 = 1 THEN "spinner.start" ELSE "spinner.stop"
    /\ Len(SpinnerEvents) \in {2 * Len(StagesRun) - 1, 2 * Len(StagesRun)}
    /\ \A k \in DOMAIN StagesRun :
          /\ SpinnerEvents[2 * k - 1].arg = StartMessageOf(StagesRun[k])
          /\ 2 * k <= Len(SpinnerEvents) =>
                 SpinnerEvents[2 * k].arg \in StopMessagesOf(StagesRun[k])
    /\ Stage \in {"Done", "Failed"} => Len(SpinnerEvents) = 2 * Len(StagesRun)
    /\ TargetExistedAtCheck => SpinnerEvents = << >>

C21_Witness ==
    /\ Stage = "Failed"
    /\ StagesRun = << "Materializing", "Installing" >>
    /\ Len(SpinnerEvents) = 4
    /\ SpinnerEvents[4].arg = "Error installing dependencies"

(***************************************************************************)
(* C22: getTsStrictnessDescription is total and injective on the three     *)
(* strictness levels: relaxed gives "Relaxed (strict: false)", moderate    *)
(* gives "Moderate (strict: true)", strict gives "Strict (maximum          *)
(* options)"; the success message of a run carries the description of the *)
(* level the user chose.                                                   *)
(***************************************************************************)
DescriptionTable ==
    { << "relaxed", "Relaxed (strict: false)" >>,
      << "moderate", "Moderate (strict: true)" >>,
      << "strict", "Strict (maximum options)" >> }

Outros == SelectSeq(trace, LAMBDA e : e.op = "outro")

C22_StrictnessDescriptions ==
    /\ {<< level, getTsStrictnessDescription(level) >> : level \in TsStrictness}
           = DescriptionTable
    /\ \A a, b \in TsStrictness :
          getTsStrictnessDescription(a) = getTsStrictnessDescription(b) => a = b
    /\ \A i \in DOMAIN Outros :
          /\ << choices.tsStrictness, Outros[i].arg >> \in DescriptionTable
          /\ \A level \in TsStrictness \ {choices.tsStrictness} :
                Outros[i].arg # getTsStrictnessDescription(level)

C22_Witness ==
    /\ Stage = "Done"
    /\ choices.tsStrictness = "strict"
    /\ Len(Outros) = 1
    /\ Outros[1].arg = "Strict (maximum options)"

(***************************************************************************)
(* The generated server (templates/base/src/index.ts): the process that    *)
(* runs what the copy of line 44 wrote.  It is a process of its own, and   *)
(* the process variables describe it here: pc is the state of the HTTP     *)
(* server, pending holds the open connections, the listeners registered    *)
(* for the server's close event and the armed timers, trace is the log of  *)
(* what the process did, exitCode the code it ended with.  The wizard's    *)
(* other variables keep their initial values.                              *)
(***************************************************************************)
MaxSignals == 2
MaxConnections == 2
ForceCloseDelay == 10000

Signals == {"SIGINT", "SIGTERM"}

Connection(c) == << "connection", c >>
CloseListener(k) == << "closeListener", k >>
Timer(k) == << "timer", k >>

OpenConnections == {c \in 1..MaxConnections : Connection(c) \in pending}
SignalsReceived == Cardinality({i \in DOMAIN trace : trace[i].ev = "signal"})

\* app.listen has returned and the process waits for events.
ShutdownInit ==
    /\ pc = "listening"
    /\ pending = {}
    /\ trace = << >>
    /\ exitCode = 0
    /\ thrown = "none"
    /\ stageLog = << >>
    /\ choices = [projectName |-> << >>, tsStrictness |-> "moderate", initGit |-> TRUE]
    /\ validationMessage = Undefined
    /\ fs = EmptyTarget
    /\ rootOwner = "none"
    /\ tpl = [l \in Locations |-> TemplateTree]
    /\ templatesDirectory = "unresolved"
    /\ packageTemplateContent = << >>

ServerFrame ==
    UNCHANGED << choices, validationMessage, fs, rootOwner, tpl, templatesDirectory,
                 packageTemplateContent, stageLog, thrown >>

\* The listener of server.close runs: "Server closed." and process.exit(0).
ServerClosed(events) ==
    /\ trace' = trace \o events \o << Event("message", "console.log", "Server closed.", ".") >>
    /\ exitCode' = 0
    /\ pc' = "exited"
    /\ pending' = {}

ConnectionsAccepted ==
    Cardinality({i \in DOMAIN trace : trace[i].ev = "call" /\ trace[i].op = "connection"})

\* A client connects; the server accepts only while it listens.
ConnectionOpens(c) ==
    /\ pc = "listening"
    /\ c = ConnectionsAccepted + 1
    /\ pending' = pending \cup {Connection(c)}
    /\ trace' = trace \o << Event("call", "connection", "", ".") >>
    /\ UNCHANGED << pc, exitCode >>
    /\ ServerFrame

\* A connection ends.  When it was the last one of a server that is closing,
\* the close event is emitted and its first listener ends the process.
ConnectionEnds(c) ==
    /\ pc \in {"listening", "closing"}
    /\ Connection(c) \in pending
    /\ IF pc = "closing" /\ OpenConnections = {c}
       THEN ServerClosed(<< Event("ok", "connection", "", ".") >>)
       ELSE /\ pending' = pending \ {Connection(c)}
            /\ trace' = trace \o << Event("ok", "connection", "", ".") >>
            /\ UNCHANGED << pc, exitCode >>
    /\ ServerFrame

\* gracefulShutdown without its force timer.
gracefulShutdownNoForceTimer(signal) ==
    /\ pc \in {"listening", "closing"}
    /\ SignalsReceived < MaxSignals
    /\ LET k == SignalsReceived + 1
           events == << Event("signal", "process.on", signal, "."),
                        Event("message", "console.log", "Shutting down gracefully...", "."),
                        Event("call", "server.close", "", ".") >>
       IN IF OpenConnections = {}
          THEN ServerClosed(events)
          ELSE /\ pc' = "closing"
               /\ pending' = pending \cup {CloseListener(k)}
               /\ trace' = trace \o events
               /\ UNCHANGED exitCode
    /\ ServerFrame

\* part_001 45-57: the handler of SIGINT and SIGTERM.  server.close registers
\* the listener and stops accepting; setTimeout arms the force timer; with no
\* connection open the close event follows as soon as the handler returns.
gracefulShutdown(signal) ==
    /\ pc \in {"listening", "closing"}
    /\ SignalsReceived < MaxSignals
    /\ LET k == SignalsReceived + 1
           events == << Event("signal", "process.on", signal, "."),
                        Event("message", "console.log", "Shutting down gracefully...", "."),
                        Event("call", "server.close", "", "."),
                        Event("call", "setTimeout", ForceCloseDelay, ".") >>
       IN IF OpenConnections = {}
          THEN ServerClosed(events)
          ELSE /\ pc' = "closing"
               /\ pending' = pending \cup {CloseListener(k), Timer(k)}
               /\ trace' = trace \o events
               /\ UNCHANGED exitCode
    /\ ServerFrame

\* part_001 53-56: a force timer fires before the server has closed.
TimerFires(k) ==
    /\ pc = "closing"
    /\ Timer(k) \in pending
    /\ trace' = trace \o
                << Event("message", "console.error",
                         "Could not close connections in time, forcefully shutting down",
                         ".") >>
    /\ exitCode' = 1
    /\ pc' = "exited"
    /\ pending' = {}
    /\ ServerFrame

ShutdownNext ==
    \/ \E c \in 1..MaxConnections : ConnectionOpens(c)
    \/ \E c \in 1..MaxConnections : ConnectionEnds(c)
    \/ \E signal \in Signals : gracefulShutdown(signal)
    \/ \E k \in 1..MaxSignals : TimerFires(k)

\* An armed timer of a running node process fires.
ShutdownSpec ==
    /\ ShutdownInit
    /\ [][ShutdownNext]_vars
    /\ WF_vars(\E k \in 1..MaxSignals : TimerFires(k))

(***************************************************************************)
(* C23: in the generated server, after a SIGINT or SIGTERM the server is   *)
(* asked to close and the process eventually exits: with code 0 if the     *)
(* server finishes closing before the force timer fires, otherwise with    *)
(* code 1 when the 10-second force timer fires.  This holds also when      *)
(* several signals arrive.                                                 *)
(***************************************************************************)
SignalArrived == SignalsReceived > 0

EverySignalClosesAndArms ==
    \A i \in DOMAIN trace :
        trace[i].ev = "signal" =>
            /\ i + 3 <= Len(trace)
            /\ trace[i + 2].op = "server.close"
            /\ trace[i + 3].op = "setTimeout"
            /\ trace[i + 3].arg = 10000

ShutdownOutcome ==
    pc = "exited" =>
        /\ SignalArrived
        /\ Last(trace).op = "console.log" =>
               /\ Last(trace).arg = "Server closed."
               /\ exitCode = 0
        /\ Last(trace).op = "console.error" => exitCode = 1
        /\ Last(trace).op \in {"console.log", "console.error"}
        /\ Cardinality({i \in DOMAIN trace :
                           \/ trace[i].op = "console.error"
                           \/ /\ trace[i].op = "console.log"
                              /\ trace[i].arg = "Server closed."}) = 1

C23_ShutdownEventuallyExits ==
    /\ [](EverySignalClosesAndArms /\ ShutdownOutcome)
    /\ SignalArrived ~> pc = "exited"

C23_Witness ==
    /\ pc = "exited"
    /\ exitCode = 1
    /\ SignalsReceived = 2
    /\ Happened("signal", "process.on", "SIGINT")
    /\ Happened("signal", "process.on", "SIGTERM")

C23_WitnessClosedInTime ==
    /\ pc = "exited"
    /\ exitCode = 0
    /\ SignalsReceived = 2
    /\ Happened("ok", "connection", "")

(***************************************************************************)
(* C24: materialization performs its writes in the fixed order: create the *)
(* src directory, src/index.ts, .gitignore, package.json, tsconfig.json.   *)
(* If step k fails, exactly the outputs of the steps before k exist in the *)
(* target and none of the later ones, the run ends in Failed, and npm      *)
(* install is not invoked.  (A path of a later step holds nothing the tool *)
(* wrote: it is absent, or it is what another process put there; what the  *)
(* failed step itself left is not constrained.)                            *)
(***************************************************************************)
WriteSteps == << "src", "src/index.ts", ".gitignore", "package.json", "tsconfig.json" >>

IsCompletedWrite(e) == e.ev = "ok" /\ e.op \in WriteOps

CompletedWrites == SelectSeq(trace, IsCompletedWrite)

MaterializationFailed ==
    \E i \in DOMAIN trace : trace[i].ev = "fail" /\ trace[i].op \in FileOps

\* The write step that failed; a failed read stands before the write it feeds
\* and counts as the last write that completed.
FailedStep ==
    IF \E i \in DOMAIN trace : trace[i].ev = "fail" /\ trace[i].op \in WriteOps
    THEN CHOOSE k \in DOMAIN WriteSteps :
             \E i \in DOMAIN trace :
                 /\ trace[i].ev = "fail"
                 /\ trace[i].op \in WriteOps
                 /\ trace[i].at = WriteSteps[k]
    ELSE Len(CompletedWrites)

OutputInPlace(q) ==
    IF q = "src" THEN fs[q] = Dir
    ELSE /\ fs[q].kind = "file"
         /\ \E i \in DOMAIN CompletedWrites :
               /\ CompletedWrites[i].at = q
               /\ CompletedWrites[i].op = "copy" =>
                      fs[q] = tpl[templatesDirectory][CompletedWrites[i].arg]
               /\ CompletedWrites[i].op = "writeFile" =>
                      Contains(fs[q].data, choices.projectName)

NotWrittenByTool(q) ==
    \/ fs[q] = Absent
    \/ rootOwner = "other" /\ fs[q] = ForeignDirectory[q]

C24_MaterializationOrderAndPartialOutput ==
    /\ Len(CompletedWrites) <= Len(WriteSteps)
    /\ \A j \in DOMAIN CompletedWrites : CompletedWrites[j].at = WriteSteps[j]
    /\ MaterializationFailed =>
          /\ Stage = "Failed"
          /\ pc = "exited"
          /\ Len(CompletedWrites) < Len(WriteSteps)
          /\ \A j \in DOMAIN WriteSteps :
                /\ j <= Len(CompletedWrites) => OutputInPlace(WriteSteps[j])
                /\ j > FailedStep => NotWrittenByTool(WriteSteps[j])
          /\ FailedStep \in {Len(CompletedWrites), Len(CompletedWrites) + 1}
          /\ ~Happened("call", "execa", "npm install")
          /\ fs["package-lock.json"] = Absent
          /\ fs["node_modules"] = Absent

C24_Witness ==
    /\ Happened("fail", "writeFile", "")
    /\ Len(CompletedWrites) = 3
    /\ fs[".gitignore"].kind = "file"
    /\ fs["package.json"] = Absent
    /\ fs["tsconfig.json"] = Absent
    /\ Stage = "Failed"

(***************************************************************************)
(* C25: in every run git commit is invoked at most once, and only after    *)
(* all four materialized files exist and the lock file has been verified.  *)
(* So when all operations succeed with initGit true, the repository has    *)
(* exactly one commit, made after the manifest, the configuration file and *)
(* the lock artifact are in place.                                         *)
(***************************************************************************)
CommitCommand == "git commit -m Initial commit from express-ts-wizard"

CommitCalls == {i \in DOMAIN trace : trace[i].ev = "call" /\ trace[i].arg = CommitCommand}

CommitsIn(tree) ==
    IF tree[".git"].kind = "dir"
    THEN Cardinality({i \in DOMAIN tree[".git"].data : tree[".git"].data[i] = "commit"})
    ELSE 0

ArtifactsInPlace ==
    /\ \A q \in MaterializedFiles : fs[q].kind = "file"
    /\ Contains(fs["package.json"].data, choices.projectName)
    /\ fs["tsconfig.json"].data = TsconfigContent(choices.tsStrictness)
    /\ fs["package-lock.json"].kind = "file"

AllSucceeded == Stage = "Done" /\ \A i \in DOMAIN trace : trace[i].ev # "fail"

C25_SingleCommitAfterArtifacts ==
    /\ Cardinality(CommitCalls) <= 1
    /\ CommitsIn(fs) <= 1
    /\ \A i \in CommitCalls :
          /\ \A q \in MaterializedFiles :
                \E j \in 1..(i - 1) : IsFileWrite(trace[j]) /\ trace[j].at = q
          /\ \E j \in 1..(i - 1) :
                /\ trace[j].ev = "sync"
                /\ trace[j].op = "existsSync"
                /\ trace[j].at = "package-lock.json"
                /\ trace[j].arg = "true"
          /\ ArtifactsInPlace
    /\ CommitsIn(fs) = 1 => Happened("ok", "execa", CommitCommand)
    /\ (AllSucceeded /\ choices.initGit) => CommitsIn(fs) = 1 /\ ArtifactsInPlace

C25_Witness ==
    /\ AllSucceeded
    /\ choices.initGit
    /\ choices.tsStrictness = "strict"
    /\ CommitsIn(fs) = 1
    /\ Cardinality(CommitCalls) = 1

(***************************************************************************)
(* Paths (POSIX): a path is the sequence of its segments below the root.   *)
(* actions.ts 112: projectPath = path.resolve(process.cwd(), projectName); *)
(* every other path of a run is path.join(projectPath, ...), and every     *)
(* subprocess gets cwd: projectPath.                                       *)
(***************************************************************************)
Cwd == << << "w" >>, << "d" >> >>

IsAbsolute(s) == s # << >> /\ s[1] = "/"

RECURSIVE SplitPath(_)
SplitPath(s) ==
    IF s = << >> THEN << >>
    ELSE LET stops == {i \in DOMAIN s : s[i] = "/"} \cup {Len(s) + 1}
             stop == CHOOSE i \in stops : \A j \in stops : i <= j
             head == SubSeq(s, 1, stop - 1)
         IN (IF head = << >> THEN << >> ELSE << head >>)
                \o SplitPath(SubSeq(s, stop + 1, Len(s)))

RECURSIVE Normalize(_, _)
Normalize(base, segments) ==
    IF segments = << >> THEN base
    ELSE LET segment == Head(segments)
             next == IF segment = << "." >> THEN base
                     ELSE IF segment = << ".", "." >>
                          THEN SubSeq(base, 1, Len(base) - 1)
                          ELSE Append(base, segment)
         IN Normalize(next, Tail(segments))

resolve(from, to) == Normalize(IF IsAbsolute(to) THEN << >> ELSE from, SplitPath(to))

projectPath == resolve(Cwd, choices.projectName)

\* The segments of the relative paths the run joins to projectPath.
Segments(q) ==
    CASE q = "." -> << << "." >> >>
      [] q = ".." -> << << ".", "." >> >>
      [] q = "src/index.ts" -> << << "src" >>, << "index.ts" >> >>
      [] OTHER -> << << q >> >>

join(base, q) == Normalize(base, Segments(q))

(***************************************************************************)
(* C26: every filesystem write the tool itself performs (ensureDir, copy   *)
(* destination, writeFile) targets a path inside the single target         *)
(* directory, and every subprocess (npm, git) runs with the target         *)
(* directory as working directory; nothing outside the target directory is *)
(* written by the tool's own operations.                                   *)
(***************************************************************************)
InsideTarget(path) ==
    /\ Len(path) > Len(projectPath)
    /\ SubSeq(path, 1, Len(projectPath)) = projectPath

C26_WritesStayInsideTarget ==
    \A i \in DOMAIN trace :
        /\ trace[i].op \in WriteOps => InsideTarget(join(projectPath, trace[i].at))
        /\ trace[i].op = "execa" => join(projectPath, trace[i].at) = projectPath
        /\ trace[i].ev = "call" => trace[i].op \in WriteOps \cup {"execa", "readFile"}

C26_Witness ==
    /\ Stage = "Done"
    /\ \E i \in DOMAIN trace :
          /\ trace[i].ev = "ok" /\ trace[i].op = "copy"
          /\ join(projectPath, trace[i].at)
                 = Cwd \o << choices.projectName, << "src" >>, << "index.ts" >> >>
    /\ Happened("ok", "execa", "npm install")
    /\ Happened("ok", "execa", CommitCommand)

(***************************************************************************)
(* C27: the success message (next steps and "Project ... created") is      *)
(* displayed if and only if the run reached Done.  Whenever it is          *)
(* displayed, all four materialization writes completed and the lock file  *)
(* was verified in this run; it is never displayed in a run that fails in  *)
(* validation, materialization or install, and it is displayed also when   *)
(* the VCS stage failed.                                                   *)
(***************************************************************************)
SuccessMessage == SelectSeq(trace, LAMBDA e : e.op \in {"note", "outro"})

SuccessDisplayed == SuccessMessage # << >>

LockFileVerified ==
    \E i \in DOMAIN trace :
        /\ trace[i].ev = "sync"
        /\ trace[i].op = "existsSync"
        /\ trace[i].at = "package-lock.json"
        /\ trace[i].arg = "true"

C27_SuccessMessageIffDone ==
    /\ SuccessDisplayed <=> Stage = "Done"
    /\ SuccessDisplayed =>
          /\ Len(SuccessMessage) = 2
          /\ SuccessMessage[1].op = "note"
          /\ SuccessMessage[1].arg = "Next steps"
          /\ SuccessMessage[2].op = "outro"
          /\ Last(trace) = SuccessMessage[2]
          /\ \A q \in MaterializedFiles :
                \E i \in DOMAIN trace : IsFileWrite(trace[i]) /\ trace[i].at = q
          /\ LockFileVerified
          /\ thrown = "none"
    /\ (TargetExistedAtCheck \/ thrown # "none") => ~SuccessDisplayed
    /\ (GitFailed /\ pc = "exited") => SuccessDisplayed

C27_Witness ==
    /\ SuccessDisplayed
    /\ Happened("fail", "execa", "git init")
    /\ LockFileVerified
    /\ pc = "exited"

(***************************************************************************)
(* C28: for every projectName the prompt validator accepts, the resolved   *)
(* target path is a direct child of the current working directory whose    *)
(* last component equals projectName.  An accepted name never makes the    *)
(* tool write at the working directory itself, at a parent directory or at *)
(* an absolute path elsewhere.                                             *)
(***************************************************************************)
DirectChildOfCwd(path, name) ==
    /\ Len(path) = Len(Cwd) + 1
    /\ SubSeq(path, 1, Len(Cwd)) = Cwd
    /\ Last(path) = name
    /\ path # Cwd
    /\ \A n \in 0..Len(Cwd) : path # SubSeq(Cwd, 1, n)

AcceptedNamesResolveBelowCwd ==
    \A value \in NameInputs :
        (SubmitProjectName(value) /\ validationMessage' = Undefined) =>
            DirectChildOfCwd(resolve(Cwd, value), value)

C28_TargetIsDirectChildOfCwd ==
    /\ [](stageLog # << >> => DirectChildOfCwd(projectPath, choices.projectName))
    /\ [][AcceptedNamesResolveBelowCwd]_vars

C28_Witness ==
    /\ choices.projectName = << "a", "-" >>
    /\ projectPath = << << "w" >>, << "d" >>, << "a", "-" >> >>
    /\ Happened("ok", "ensureDir", "")

\* Names the validator rejects and path.resolve would take elsewhere.
C28_WitnessRejectedEscapes ==
    /\ pc = "projectName"
    /\ validationMessage = "Only letters, numbers, hyphens and underscores allowed"
    /\ resolve(Cwd, << ".", "." >>) = << << "w" >> >>
    /\ resolve(Cwd, << "/", "a" >>) = << << "a" >> >>
    /\ resolve(Cwd, << "." >>) = Cwd
    /\ resolve(Cwd, << "a", "/" >>) = << << "w" >>, << "d" >>, << "a" >> >>

(***************************************************************************)
(* A run whose external operations all return: the steps of main and       *)
(* createProject after the prompts are taken whenever they can be.         *)
(***************************************************************************)
Step ==
    \/ createProject
    \/ \E ok \in BOOLEAN : EnsureDirReturns(ok)
    \/ \E ok \in BOOLEAN : CopyIndexReturns(ok)
    \/ \E ok \in BOOLEAN : CopyGitignoreReturns(ok)
    \/ \E ok \in BOOLEAN : ReadFileReturns(ok)
    \/ \E ok \in BOOLEAN : WriteFileReturns(ok)
    \/ \E ok \in BOOLEAN : CopyTsconfigReturns(ok)
    \/ \E ok, lockWritten \in BOOLEAN : NpmInstallReturns(ok, lockWritten)
    \/ \E ok \in BOOLEAN : GitInitReturns(ok)
    \/ \E ok \in BOOLEAN : GitAddReturns(ok)
    \/ \E ok \in BOOLEAN : GitCommitReturns(ok)

FairSpec == Init /\ [][Next]_vars /\ WF_vars(Step)

(***************************************************************************)
(* C29: assuming every external operation (filesystem call, npm            *)
(* subprocess, git subprocess) eventually returns, every run that gets     *)
(* past the prompts eventually reaches exactly one terminal outcome, Done  *)
(* or Failed, and never both; no reachable state has the pipeline stuck in *)
(* a non-terminal stage with no operation pending.                         *)
(***************************************************************************)
PastPrompts == pc = "main"

Terminal == Stage \in {"Done", "Failed"}

OneOutcome ==
    Cardinality({i \in DOMAIN stageLog : stageLog[i] \in {"Done", "Failed"}}) <= 1

NeverStuck ==
    (stageLog # << >> /\ ~Terminal) =>
        /\ pending = {pc}
        /\ pc \in AsyncOps
        /\ Last(trace).ev = "call"

C29_RunReachesOneOutcome ==
    /\ [](OneOutcome /\ NeverStuck)
    /\ PastPrompts ~> Terminal
    /\ [](Terminal => [](Terminal /\ pc = "exited"))

C29_Witness ==
    /\ Stage = "InitializingVcs"
    /\ pc = "gitAdd"
    /\ pending = {"gitAdd"}

(***************************************************************************)
(* C30: the run is deterministic in its inputs.  Two runs with the same    *)
(* UserChoices and the same outcomes of the external operations            *)
(* (existence checks, file operations, npm, git) perform the same sequence *)
(* of external operations and end in the same terminal state with the same *)
(* exit code.  Stated as: the operations performed, the terminal stage and *)
(* the exit code are a function of the choices and of the outcomes seen.   *)
(***************************************************************************)
OperationPlan(c) ==
    << << "existsSync", "", "." >>,
       << "ensureDir", "", "src" >>,
       << "copy", "base/src/index.ts", "src/index.ts" >>,
       << "copy", "base/gitignore", ".gitignore" >>,
       << "readFile", "base/package.template.json", "" >>,
       << "writeFile", "", "package.json" >>,
       << "copy",
          CASE c.tsStrictness = "relaxed" -> "tsconfig/relaxed.json"
            [] c.tsStrictness = "moderate" -> "tsconfig/moderate.json"
            [] c.tsStrictness = "strict" -> "tsconfig/strict.json",
          "tsconfig.json" >>,
       << "execa", "npm install", "." >>,
       << "existsSync", "", "package-lock.json" >> >>
    \o (IF c.initGit
        THEN << << "execa", "git init", "." >>,
                << "execa", "git add .", "." >>,
                << "execa", CommitCommand, "." >> >>
        ELSE << >>)

IsOperation(e) == e.ev = "call" \/ e.ev = "sync"
IsOutcome(e) == e.ev \in {"ok", "fail", "sync"}

Operations == SelectSeq(trace, IsOperation)
Outcomes == SelectSeq(trace, IsOutcome)

OperationOf(e) == << e.op, IF e.ev = "sync" THEN "" ELSE e.arg, e.at >>

\* The outcome on which the run goes on to the next operation of the plan.
GoesOn(e) ==
    CASE e.ev = "ok" -> TRUE
      [] e.ev = "fail" -> FALSE
      [] e.ev = "sync" -> IF e.at = "." THEN e.arg = "false" ELSE e.arg = "true"

ExpectedStage(operation, outcome) ==
    IF GoesOn(outcome) \/ (operation[1] = "execa" /\ operation[2] \in GitCommands)
    THEN "Done"
    ELSE "Failed"

ExpectedExitCode(stage) == IF stage = "Failed" THEN 1 ELSE 0

C30_RunIsFunctionOfInputs ==
    LET plan == OperationPlan(choices)
        n == Len(Operations)
    IN /\ stageLog = << >> => Operations = << >>
       /\ n <= Len(plan)
       /\ \A k \in 1..n : OperationOf(Operations[k]) = plan[k]
       /\ Len(Outcomes) \in {n - 1, n}
       /\ \A k \in DOMAIN Outcomes :
             /\ OperationOf(Outcomes[k]) = plan[k]
             /\ k < n => GoesOn(Outcomes[k])
       /\ (stageLog # << >> /\ pc # "exited") => Len(Outcomes) = n - 1
       /\ (stageLog # << >> /\ pc = "exited") =>
             /\ Len(Outcomes) = n
             /\ GoesOn(Outcomes[n]) => n = Len(plan)
             /\ Stage = ExpectedStage(plan[n], Outcomes[n])
             /\ exitCode = ExpectedExitCode(Stage)

C30_Witness ==
    /\ pc = "exited"
    /\ ~choices.initGit
    /\ Len(Operations) = 9
    /\ Stage = "Failed"
    /\ Last(Outcomes).op = "existsSync"
    /\ exitCode = 1

C30_WitnessDone ==
    /\ pc = "exited"
    /\ choices.initGit
    /\ Len(Operations) = 11
    /\ Stage = "Done"
    /\ Last(Outcomes).ev = "fail"
    /\ exitCode = 0
====
